---- MODULE Spec2Model ----
(***************************************************************************)
(* KSV-10: a Chainlit chat application (app.py) that looks a term up in a  *)
(* Meilisearch index and offers an LLM translation, plus the command-line  *)
(* scripts that maintain its SQLite user table (create_admin.py,           *)
(* add_user.py, delete_user.py).                                           *)
(*                                                                         *)
(* Text is a sequence of characters.  SP is the blank, CMD stands for the  *)
(* fifteen characters "/schimba_parola" taken as one unit, and the letters *)
(* are ordinary non-blank characters.                                      *)
(***************************************************************************)
EXTENDS Naturals, Sequences, FiniteSets

VARIABLES
    users,        \* the rows of table users: username -> [password_hash, role]
    db,           \* users.db: "absent", "empty" (a file without the table), "ready"
    sessionUser,  \* cl.context.session.user (NoUser when the session has none)
    messages,     \* the messages displayed in the chat, in the order sent
    clicks,       \* per displayed message: how often its ask_llm action was invoked
    pending,      \* ask_llm coroutines suspended after their first send
    lookups,      \* the terms for which meili_index.search has returned
    last,         \* what the latest handler step did
    steps         \* the number of handler invocations so far

vars == <<users, db, sessionUser, messages, clicks, pending, lookups, last, steps>>

-----------------------------------------------------------------------------
(* Bounds and input sets *)

MaxSteps == 3
MaxOps == 5

SP == " "
CMD == "/schimba_parola"
Letters == {"a", "b"}
Words == {<<c>> : c \in Letters}

NoUser == "<none>"

RECURSIVE Args(_)
\* " w1 w2 ..." : the words of ws, each preceded by one blank
Args(ws) == IF ws = <<>> THEN <<>> ELSE <<SP>> \o Head(ws) \o Args(Tail(ws))

WordLists == {<<>>, <<<<"a">>>>, <<<<"a">>, <<"b">>>>, <<<<"b">>, <<"a">>>>,
              <<<<"a">>, <<"b">>, <<"b">>>>}

\* what a user may type, before padding: nothing, a term, a command
Bodies == {<<>>, <<"a">>, <<"a", SP, "b">>}
            \cup {<<CMD>> \o Args(ws) : ws \in WordLists}
            \cup {<<CMD, "a">> \o Args(ws) : ws \in {<<>>, <<<<"a">>, <<"b">>>>}}

\* typed as it is, or with blanks around it
Contents == Bodies \cup {<<SP>> \o b \o <<SP, SP>> : b \in Bodies}

-----------------------------------------------------------------------------
(* str.strip, str.startswith, str.split *)

RECURSIVE LStrip(_)
LStrip(s) == IF s # <<>> /\ Head(s) = SP THEN LStrip(Tail(s)) ELSE s

RECURSIVE RStrip(_)
RStrip(s) == IF s # <<>> /\ s[Len(s)] = SP THEN RStrip(SubSeq(s, 1, Len(s) - 1)) ELSE s

\* the content taken as it is
Strip_Nothing(s) == s

Strip(s) == RStrip(LStrip(s))

StartsWith(s, p) == Len(s) >= Len(p) /\ SubSeq(s, 1, Len(p)) = p

RECURSIVE SplitFrom(_, _)
\* s.split(): the maximal runs of non-blank characters; cur is the run being read
SplitFrom(s, cur) ==
    IF s = <<>> THEN (IF cur = <<>> THEN <<>> ELSE <<cur>>)
    ELSE IF Head(s) = SP
         THEN (IF cur = <<>> THEN <<>> ELSE <<cur>>) \o SplitFrom(Tail(s), <<>>)
         ELSE SplitFrom(Tail(s), Append(cur, Head(s)))

Split(s) == SplitFrom(s, <<>>)

-----------------------------------------------------------------------------
(* passlib: a bcrypt hash carries a fresh salt and verifies against its password *)

Salts == {"s1", "s2"}

get_password_hash(password, salt) == [pw |-> password, salt |-> salt]

verify_password(plain_password, hashed_password) == hashed_password.pw = plain_password

Usernames == {"admin", "Admin", "bob"}
Roles == {"admin", "user"}

Row(h, r) == [password_hash |-> h, role |-> r]

\* get_user: <<the row of username as a dict>>, or <<>> for None
get_user(username) ==
    IF username \in DOMAIN users
    THEN <<[username |-> username, password_hash |-> users[username].password_hash,
            role |-> users[username].role]>>
    ELSE <<>>

\* the UPDATE without its WHERE clause
change_password_in_db_AllRows(username, new_password_hash) ==
    [u \in DOMAIN users |-> Row(new_password_hash, users[u].role)]

\* UPDATE users SET password_hash = ? WHERE username = ?
change_password_in_db(username, new_password_hash) ==
    [u \in DOMAIN users |->
        IF u = username THEN Row(new_password_hash, users[u].role) ELSE users[u]]

-----------------------------------------------------------------------------
(* Messages, actions and the two external services *)

LLM_MODEL == "gemini-pro"
LLM_SYSTEM_PROMPT == "You are a professional translator and linguist."

\* action.payload.get("term")
PayloadTerm(action) == action.payload.term

\* cl.Action(name=..., payload={"term": term}, label=...)
Action(name, term) == [name |-> name, payload |-> [term |-> term]]

\* cl.Message(content=..., actions=...): the content is kept by its parts
Message(kind, term, lines, text, actions) ==
    [kind |-> kind, term |-> term, lines |-> lines, text |-> text, actions |-> actions]

Plain(kind) == Message(kind, <<>>, <<>>, "", <<>>)

\* dict.get(key, default)
Get(hit, key, default) == IF key \in DOMAIN hit THEN hit[key] ELSE default

Hit1 == [lang_a |-> "dog", lang_b |-> "caine", source |-> "DEX"]
Hit2 == [lang_a |-> "cat"]
HitLists == {<<>>, <<Hit1>>, <<Hit1, Hit2>>}

\* what an external service answers: an exception, hits, or a text
Reply(error, hits, text) == [error |-> error, hits |-> hits, text |-> text]
NoReply == Reply(FALSE, <<>>, "")

\* what meili_index.search does: it raises, or returns {'hits': [...]}
SearchOutcomes == {Reply(TRUE, <<>>, "unavailable")}
                    \cup {Reply(FALSE, h, "") : h \in HitLists}

\* what langdetect.detect does: a language code (fr for any third language),
\* or LangDetectException
DetectOutcomes == {"en", "ro", "fr", "raise"}

\* what litellm.completion does: a response with content, an exception, or a
\* response without choices[0].message.content
Answers == {"t1"}
CompletionOutcomes == {Reply(FALSE, <<>>, t) : t \in Answers}
                        \cup {Reply(TRUE, <<>>, "raise"), Reply(TRUE, <<>>, "malformed")}

NoRequest == [kind |-> "none", q |-> <<>>, restrict |-> "", system |-> ""]

\* the field of the index that holds the other language
OtherField(lang) == IF lang = "en" THEN "lang_b" ELSE "lang_a"

\* the search restricted to the field of the other language
SearchRequest_ByLanguage(term, lang) ==
    [kind |-> "search", q |-> term, restrict |-> OtherField(lang), system |-> ""]

\* meili_index.search(term): the query and no search parameters
SearchRequest(term, lang) ==
    [kind |-> "search", q |-> term, restrict |-> "", system |-> ""]

\* completion(model=LLM_MODEL, messages=[system prompt, term])
CompletionRequest(term) ==
    [kind |-> "completion", q |-> term, restrict |-> "", system |-> LLM_SYSTEM_PROMPT]

\* the lines built for search_results['hits']
ResultLines(hits) ==
    [i \in 1..Len(hits) |->
        [lang_a |-> Get(hits[i], "lang_a", ""), lang_b |-> Get(hits[i], "lang_b", ""),
         source |-> Get(hits[i], "source", "N/A")]]

MatchMessage(term, hits) ==
    Message("match", term, ResultLines(hits), "", <<Action("ask_llm", term)>>)

\* the offer without its button
OfferMessage_NoAction(term) == Message("offer", term, <<>>, "", <<>>)

OfferMessage(term) ==
    Message("offer", term, <<>>, "", <<Action("ask_llm", term)>>)

\* one handler step: what it was given and what it did
Step(op, content, term, lang, request, env, outcome, raised, sent, via, nth) ==
    [op |-> op, content |-> content, term |-> term, lang |-> lang, request |-> request,
     env |-> env, outcome |-> outcome, raised |-> raised, sent |-> sent, via |-> via,
     nth |-> nth]

\* the effect of a handler: the messages it sends, the table and the lookups
\* it leaves, and the step it made
Effect(send, table, looked, step) ==
    [send |-> send, users |-> table, lookups |-> looked, last |-> step]

-----------------------------------------------------------------------------
(* app.py: main, the on_message handler *)

RECURSIVE Zeros(_)
Zeros(n) == IF n = 0 THEN <<>> ELSE <<0>> \o Zeros(n - 1)

\* a handler step takes effect: its messages are displayed after the others
Apply(e) ==
    /\ messages' = messages \o e.send
    /\ clicks' = clicks \o Zeros(Len(e.send))
    /\ users' = e.users
    /\ lookups' = e.lookups
    /\ last' = e.last

\* a branch of the /schimba_parola command ends: one message, or an exception
CommandDone(content, kind, table, raised) ==
    Effect(IF raised THEN <<>> ELSE <<Plain(kind)>>, table, lookups,
           Step("main", content, <<>>, "", NoRequest, NoReply, kind, raised,
                IF raised THEN 0 ELSE 1, 0, 0))

\* the change itself: the new hash is written, the write fails, or connect
\* fails and the finally clause reads the unbound conn
ChangePassword(content, username, new_password, salt, dbWrite) ==
    CASE dbWrite = "ok" ->
            CommandDone(content, "changed",
                        change_password_in_db(username,
                                              get_password_hash(new_password, salt)),
                        FALSE)
      [] dbWrite = "error" -> CommandDone(content, "change_failed", users, FALSE)
      [] OTHER -> CommandDone(content, "change_crashed", users, TRUE)

\* the /schimba_parola branch
PasswordCommand(content, msg_content) ==
    LET parts == Split(msg_content)
    IN  IF Len(parts) # 3 THEN Apply(CommandDone(content, "usage", users, FALSE))
        ELSE LET old_password == parts[2]
                 new_password == parts[3]
             IN  \E dbRead \in BOOLEAN :
                   IF sessionUser = NoUser \/ ~dbRead
                   THEN Apply(CommandDone(content, "no_user", users, FALSE))
                   ELSE LET user_db_data == get_user(sessionUser)
                        IN  IF user_db_data = <<>>
                            THEN Apply(CommandDone(content, "not_found", users, FALSE))
                            ELSE IF ~verify_password(old_password,
                                                     user_db_data[1].password_hash)
                            THEN Apply(CommandDone(content, "bad_old", users, FALSE))
                            ELSE \E salt \in Salts,
                                    dbWrite \in {"ok", "error", "connect_error"} :
                                   Apply(ChangePassword(content, user_db_data[1].username,
                                                        new_password, salt, dbWrite))

\* what follows the return of meili_index.search
Present(content, term, lang, search_results) ==
    LET shown == IF search_results.hits # <<>>
                 THEN MatchMessage(term, search_results.hits)
                 ELSE OfferMessage(term)
    IN  Effect(<<shown>>, users, lookups \cup {term},
               Step("main", content, term, lang, SearchRequest(term, lang),
                    search_results, shown.kind, FALSE, 1, 0, 0))

\* the offer made although the search has not returned
Lookup_OfferOnError(content, term, lang, search_results) ==
    IF search_results.error
    THEN Effect(<<OfferMessage(term)>>, users, lookups,
                Step("main", content, term, lang, SearchRequest(term, lang),
                     search_results, "offer", FALSE, 1, 0, 0))
    ELSE Present(content, term, lang, search_results)

\* the search and what main makes of it: an exception of the search is not caught
Lookup(content, term, lang, search_results) ==
    IF search_results.error
    THEN Effect(<<>>, users, lookups,
                Step("main", content, term, lang, SearchRequest(term, lang),
                     search_results, "search_error", TRUE, 0, 0, 0))
    ELSE Present(content, term, lang, search_results)

\* try: lang = detect(term) except: lang = "en"
Detect(detected) == IF detected = "raise" THEN "en" ELSE detected

\* the dictionary branch
Dictionary(content, term) ==
    IF term = <<>>
    THEN Apply(Effect(<<Plain("ask_term")>>, users, lookups,
                      Step("main", content, term, "", NoRequest, NoReply,
                           "ask_term", FALSE, 1, 0, 0)))
    ELSE \E detected \in DetectOutcomes, search_results \in SearchOutcomes :
            \E e \in {Lookup(content, term, Detect(detected), search_results)} :
                Apply(e)

main(content) ==
    /\ steps < MaxSteps
    /\ steps' = steps + 1
    /\ \E msg_content \in {Strip(content)} :
          IF StartsWith(msg_content, <<CMD>>)
          THEN PasswordCommand(content, msg_content)
          ELSE Dictionary(content, msg_content)
    /\ UNCHANGED <<db, sessionUser, pending>>

-----------------------------------------------------------------------------
(* app.py: ask_llm, the action callback.  It is suspended once, at the send *)
(* of its first message, and other handlers may run before it goes on.      *)

\* an except clause that lets a response without content through
Translate_Uncaught(term, response) ==
    IF ~response.error
    THEN [raised |-> FALSE,
          send |-> <<Message("ai_answer", term, <<>>, response.text, <<>>)>>]
    ELSE IF response.text = "raise"
    THEN [raised |-> FALSE,
          send |-> <<Message("ai_error", term, <<>>, response.text, <<>>)>>]
    ELSE [raised |-> TRUE, send |-> <<>>]

\* the try/except around completion and the send of the final message
Translate(term, response) ==
    IF ~response.error
    THEN [raised |-> FALSE,
          send |-> <<Message("ai_answer", term, <<>>, response.text, <<>>)>>]
    ELSE [raised |-> FALSE,
          send |-> <<Message("ai_error", term, <<>>, response.text, <<>>)>>]

\* the answer put where the earlier answer for the term is displayed
SendAnswer_InPlace(task, sent) ==
    LET shown == {j \in 1..Len(messages) :
                     messages[j].kind = "ai_answer" /\ messages[j].term = task.term}
    IN  IF shown = {} \/ sent = <<>> THEN messages \o sent
        ELSE [messages EXCEPT ![CHOOSE j \in shown : TRUE] = sent[1]]

\* cl.Message(content=...).send(): a new message after those displayed
SendAnswer(task, sent) == messages \o sent

ask_llm(i) ==
    /\ steps < MaxSteps
    /\ i \in 1..Len(messages)
    /\ messages[i].actions # <<>>
    /\ LET action == messages[i].actions[1]
           term == PayloadTerm(action)
           nth == clicks[i] + 1
       IN  /\ messages' = Append(messages, Message("thinking", term, <<>>, "", <<>>))
           /\ clicks' = [Append(clicks, 0) EXCEPT ![i] = nth]
           /\ pending' = pending \cup {[via |-> i, term |-> term, nth |-> nth]}
           /\ last' = Step("ask_llm", <<>>, term, "", NoRequest, NoReply, "thinking",
                           FALSE, 1, i, nth)
    /\ steps' = steps + 1
    /\ UNCHANGED <<users, db, sessionUser, lookups>>

ask_llm_resume(task, response) ==
    /\ task \in pending
    /\ \E r \in {Translate(task.term, response)} :
         \E shown \in {SendAnswer(task, r.send)} :
           /\ messages' = shown
           /\ clicks' = clicks \o Zeros(Len(shown) - Len(messages))
           /\ last' = Step("ask_llm_done", <<>>, task.term, "",
                           CompletionRequest(task.term), response,
                           IF r.raised THEN "crashed" ELSE r.send[1].kind,
                           r.raised, Len(r.send), task.via, task.nth)
    /\ pending' = pending \ {task}
    /\ UNCHANGED <<users, db, sessionUser, lookups, steps>>

-----------------------------------------------------------------------------
(* The chat session *)

SessionUsers == {NoUser, "bob", "ghost"}

\* on_chat_start has sent its welcome; the table holds an admin and a user
Init ==
    /\ users = [u \in {"admin", "bob"} |->
                  IF u = "admin" THEN Row(get_password_hash(<<"a">>, "s1"), "admin")
                                 ELSE Row(get_password_hash(<<"b">>, "s1"), "user")]
    /\ db = "ready"
    /\ sessionUser \in SessionUsers
    /\ messages = <<Plain("welcome")>>
    /\ clicks = <<0>>
    /\ pending = {}
    /\ lookups = {}
    /\ last = Step("on_chat_start", <<>>, <<>>, "", NoRequest, NoReply, "welcome",
                   FALSE, 1, 0, 0)
    /\ steps = 0

OnMessage == \E content \in Contents : main(content)

OnAction == \E i \in 1..Len(messages) : ask_llm(i)

OnResume ==
    \E task \in pending, response \in CompletionOutcomes :
        ask_llm_resume(task, response)

Next == OnMessage \/ OnAction \/ OnResume

Spec == Init /\ [][Next]_vars

-----------------------------------------------------------------------------
(* create_admin.py, add_user.py, delete_user.py: the scripts run one at a   *)
(* time against users.db                                                    *)

ADMIN_USERNAME == "admin"
\* ADMIN_PASSWORD = "admin", here the one-letter word
ADMIN_PASSWORD == <<"a">>

\* str.lower on the usernames of the model
Lower(username) == IF username = "Admin" THEN "admin" ELSE username

\* sqlite3.connect creates the file when there is none
Connected(file) == IF file = "absent" THEN "empty" ELSE file

\* SELECT COUNT(*) FROM users WHERE role = 'admin'
AdminCount(table) == Cardinality({u \in DOMAIN table : table[u].role = "admin"})

\* INSERT INTO users (username, password_hash, role) VALUES (?, ?, ?)
Insert(table, username, password_hash, role) ==
    [u \in DOMAIN table \cup {username} |->
        IF u = username THEN Row(password_hash, role) ELSE table[u]]

\* DELETE FROM users WHERE username = ?
Delete(table, username) == [u \in DOMAIN table \ {username} |-> table[u]]

\* a script ran: the file and the table it leaves, and what it printed
Ran(op, file, table, outcome) ==
    /\ steps < MaxOps
    /\ steps' = steps + 1
    /\ db' = file
    /\ users' = table
    /\ last' = Step(op, <<>>, <<>>, "", NoRequest, NoReply, outcome, FALSE, 0, 0, 0)
    /\ UNCHANGED <<sessionUser, messages, clicks, pending, lookups>>

\* CREATE TABLE IF NOT EXISTS users (...)
create_database == Ran("create_database", "ready", users, "ready")

add_admin_user ==
    IF Connected(db) # "ready"
    THEN Ran("add_admin_user", Connected(db), users, "database_error")
    ELSE IF ADMIN_USERNAME \in DOMAIN users
    THEN Ran("add_admin_user", db, users, "exists")
    ELSE \E salt \in Salts :
            Ran("add_admin_user", db,
                Insert(users, ADMIN_USERNAME, get_password_hash(ADMIN_PASSWORD, salt),
                       "admin"),
                "created")

add_user(username, password, role) ==
    IF db = "absent" THEN Ran("add_user", db, users, "no_database")
    ELSE IF db # "ready" THEN Ran("add_user", db, users, "database_error")
    ELSE IF username \in DOMAIN users THEN Ran("add_user", db, users, "exists")
    ELSE IF role \notin Roles THEN Ran("add_user", db, users, "integrity_error")
    ELSE \E salt \in Salts :
            Ran("add_user", db,
                Insert(users, username, get_password_hash(password, salt), role),
                "created")

\* the guard of delete_user: only the username 'admin', in any case of letters,
\* is checked against the number of admin rows
LastAdmin(username) == Lower(username) = "admin" /\ AdminCount(users) <= 1

delete_user(username) ==
    IF db = "absent" THEN Ran("delete_user", db, users, "no_database")
    ELSE IF db # "ready" THEN Ran("delete_user", db, users, "database_error")
    ELSE IF username \notin DOMAIN users THEN Ran("delete_user", db, users, "not_found")
    ELSE IF LastAdmin(username) THEN Ran("delete_user", db, users, "last_admin")
    ELSE Ran("delete_user", db, Delete(users, username), "deleted")

\* no users.db yet, and no chat
InitAdmin ==
    /\ users = [u \in {} |-> Row(get_password_hash(<<>>, "s1"), "user")]
    /\ db = "absent"
    /\ sessionUser = NoUser
    /\ messages = <<>>
    /\ clicks = <<>>
    /\ pending = {}
    /\ lookups = {}
    /\ last = Step("none", <<>>, <<>>, "", NoRequest, NoReply, "", FALSE, 0, 0, 0)
    /\ steps = 0

AddUser ==
    \E username \in Usernames, password \in Words, role \in Roles \cup {"guest"} :
        add_user(username, password, role)

DeleteUser == \E username \in Usernames : delete_user(username)

NextAdmin == create_database \/ add_admin_user \/ AddUser \/ DeleteUser

SpecAdmin == InitAdmin /\ [][NextAdmin]_vars

-----------------------------------------------------------------------------
(* Properties *)

IsBlank(c) == \A k \in 1..Len(c) : c[k] = SP

\* c begins, after blanks, with the command
IsCommandText(c) == \E i \in 1..Len(c) : c[i] = CMD /\ \A k \in 1..(i - 1) : c[k] = SP

\* t is c without the blanks around it
IsTrimOf(t, c) ==
    \E i \in 0..Len(c) :
        /\ i + Len(t) <= Len(c)
        /\ \A k \in 1..i : c[k] = SP
        /\ \A k \in (i + Len(t) + 1)..Len(c) : c[k] = SP
        /\ \A k \in 1..Len(t) : c[i + k] = t[k]
        /\ t # <<>> => t[1] # SP /\ t[Len(t)] # SP

MainStep == steps' = steps + 1 /\ last'.op = "main"
AskStep == Cardinality(pending') > Cardinality(pending)
ResumeStep == Cardinality(pending') < Cardinality(pending)

AnswerDisplayed(term) ==
    \E j \in 1..Len(messages) : messages[j].kind = "ai_answer" /\ messages[j].term = term

\* C1: when the search of main fails for a non-empty term, main still shows a
\* message that carries the ask_llm action for the term, and raises nothing.
C1_SearchErrorHandled ==
    (last.op = "main" /\ last.request.kind = "search" /\ last.env.error) =>
        /\ ~last.raised
        /\ last.sent >= 1
        /\ \E k \in 1..Len(messages[Len(messages)].actions) :
              messages[Len(messages)].actions[k] = Action("ask_llm", last.term)

C3_BlankInputPrompts ==
    [][(MainStep /\ IsBlank(last'.content)) =>
          /\ messages' = Append(messages, Plain("ask_term"))
          /\ messages'[Len(messages')].actions = <<>>
          /\ last'.request.kind = "none"
          /\ ~last'.raised
          /\ lookups' = lookups /\ pending' = pending /\ users' = users]_vars

C3_Witness == last.op = "main" /\ IsBlank(last.content) /\ Len(last.content) > 0

\* C4: the second and later invocations of the ask_llm action of one message
\* fail with InvalidToken and issue no completion.
C4_SingleUse ==
    (last.op \in {"ask_llm", "ask_llm_done"} /\ last.nth >= 2) =>
        /\ last.outcome = "invalid_token"
        /\ last.request.kind # "completion"

C6_NoDeadEnd ==
    [][(MainStep /\ ~IsBlank(last'.content) /\ ~IsCommandText(last'.content)
          /\ ~last'.env.error) =>
          \E m \in {messages'[Len(messages')]} :
              /\ messages' = Append(messages, m)
              /\ Len(m.actions) = 1
              /\ m.actions[1].name = "ask_llm"
              /\ IsTrimOf(m.actions[1].payload.term, last'.content)
              /\ Len(m.lines) = Len(last'.env.hits)
              /\ \A i \in 1..Len(m.lines) :
                    \A key \in DOMAIN last'.env.hits[i] :
                        m.lines[i][key] = last'.env.hits[i][key]]_vars

C6_Witness ==
    /\ last.op = "main" /\ Len(last.env.hits) = 2
    /\ last.content # last.term
    /\ messages[Len(messages)].kind = "match"

\* C7: ask_llm always ends with a message for its term: the answer, or, when
\* the completion raises or its response has no content, the failure; it
\* raises nothing.
C7_TranslatorAlwaysAnswers ==
    [][ResumeStep =>
          \E m \in {messages'[Len(messages')]} :
              /\ messages' = Append(messages, m)
              /\ ~last'.raised
              /\ m.term = last'.term
              /\ m.text = last'.env.text
              /\ m.kind = IF last'.env.error THEN "ai_error" ELSE "ai_answer"]_vars

C7_Witness ==
    /\ last.op = "ask_llm_done" /\ last.env.error /\ last.env.text = "malformed"
    /\ messages[Len(messages)].kind = "ai_error"

\* C8: ask_llm runs, and calls the completion, only for a term whose search
\* has returned in an earlier step.
C8_LookupBeforeTranslator ==
    /\ last.op \in {"ask_llm", "ask_llm_done"} => last.term \in lookups
    /\ last.request.kind = "completion" => last.request.q \in lookups

C8_Witness ==
    /\ last.request.kind = "completion"
    /\ Cardinality(lookups) = 2

\* C9: once the table holds an account of role admin, it holds one after every
\* add_user and delete_user.
C9_AdminRemains == [][AdminCount(users) >= 1 => AdminCount(users') >= 1]_vars

\* C10: main changes the table only by the password hash of the user of the
\* session, and only for a command of two arguments whose old password
\* verifies; a command that is refused (wrong number of arguments, no user of
\* the session, user not in the table, wrong old password) leaves the table
\* and sends one message, and the dictionary branch leaves the table.
C10_PasswordFrame ==
    [][MainStep =>
          LET parts == Split(Strip(last'.content))
              accepted == /\ IsCommandText(last'.content)
                          /\ Len(parts) = 3
                          /\ sessionUser \in DOMAIN users
                          /\ verify_password(parts[2], users[sessionUser].password_hash)
          IN  /\ users' # users =>
                    /\ accepted
                    /\ DOMAIN users' = DOMAIN users
                    /\ \A u \in DOMAIN users \ {sessionUser} : users'[u] = users[u]
                    /\ users'[sessionUser].role = users[sessionUser].role
                    /\ verify_password(parts[3], users'[sessionUser].password_hash)
              /\ ((IsCommandText(last'.content) /\ ~accepted)
                    \/ last'.outcome \in {"usage", "no_user", "not_found", "bad_old"}) =>
                    /\ users' = users
                    /\ Len(messages') = Len(messages) + 1
                    /\ messages'[Len(messages')].kind
                          \in {"usage", "no_user", "not_found", "bad_old"}
                    /\ SubSeq(messages', 1, Len(messages)) = messages
              /\ ~IsCommandText(last'.content) => users' = users]_vars

C10_Witness ==
    /\ last.op = "main" /\ last.outcome = "changed"
    /\ sessionUser = "bob"
    /\ verify_password(<<"a">>, users["bob"].password_hash)

====
